---- MODULE Spec2Model ----
(***************************************************************************)
(* A model of the editing core of the editor: the line buffer with its     *)
(* cursor and viewport (src/src/lib.rs, mod buffer) and the key loop that  *)
(* drives it (src/src/main.rs).                                            *)
(*                                                                         *)
(* A Rust String is modelled as the sequence of its UTF-8 bytes, because   *)
(* every column of the buffer is a byte offset (String::len, String::insert*)
(* and str::find all count bytes).  A byte is one of the strings below.    *)
(* A panic (index out of bounds, Option::unwrap on None, a byte offset     *)
(* that is not a char boundary) ends the process: it sets panicked, the   *)
(* buffer is dropped by the unwinding (modelled as the fields of a new      *)
(* buffer) and no operation is possible afterwards.                         *)
(***************************************************************************)
EXTENDS Integers, Sequences, FiniteSets, TLC

VARIABLES lines, cursor, view, file_path, panicked, lastOp, result, io,
          mode, status, screen

vars == <<lines, cursor, view, file_path, panicked, lastOp, result, io,
          mode, status, screen>>

-----------------------------------------------------------------------------
(* Bounds of the model. *)

\* most lines a buffer grows to (insert_line is not offered beyond it)
MaxLines == 3
\* most bytes of text a buffer grows to (insert_char and insert_string are
\* not offered beyond it)
MaxBytes == 2
\* terminal columns and rows left to the view by make_view
ViewWidth == 2
ViewHeight == 1
\* most bytes of a file read by from_path
MaxFileLen == 4

-----------------------------------------------------------------------------
(* Bytes, chars and strings. *)

LF == "\n"
CR == "\r"
\* the two bytes of a two-byte UTF-8 char (U+00E9): lead byte, continuation byte
LEAD == "c3"
CONT == "a9"

\* chars, each as its UTF-8 encoding
CharA == <<"a">>
CharSpace == <<" ">>
CharE == <<LEAD, CONT>>

\* char::is_whitespace on a one-byte char
is_whitespace(byte) == byte \in {" ", CR, LF, "\t"}

NONE == "None"

saturating_sub(a, b) == IF a > b THEN a - b ELSE 0

min(a, b) == IF a <= b THEN a ELSE b

\* str::is_char_boundary: offset 0 and len are boundaries, an offset past len
\* is not, an offset inside is one unless it addresses a continuation byte
is_char_boundary(s, index) ==
    \/ index = 0
    \/ index = Len(s)
    \/ (index < Len(s) /\ s[index + 1] # CONT)

\* the bytes of s from byte offset i on / before byte offset i
Skip(s, i) == SubSeq(s, i + 1, Len(s))
Take(s, i) == SubSeq(s, 1, min(i, Len(s)))

\* char::len_utf8 of the char that starts at byte offset index of s
len_utf8_at(s, index) == IF s[index + 1] = LEAD THEN 2 ELSE 1

\* str::chars: the chars of a string, each as its bytes
RECURSIVE chars(_)
chars(s) ==
    IF s = <<>> THEN <<>>
    ELSE LET n == min(len_utf8_at(s, 0), Len(s))
         IN  <<Take(s, n)>> \o chars(Skip(s, n))

\* Iterator::collect::<String> of a sequence of chars or strings
RECURSIVE concat(_)
concat(ss) == IF ss = <<>> THEN <<>> ELSE Head(ss) \o concat(Tail(ss))

\* str::find(|c| !c.is_whitespace()).unwrap_or_default(): the byte offset of
\* the first char that is not whitespace, 0 when there is none
RECURSIVE find_non_whitespace(_, _)
find_non_whitespace(s, from) ==
    IF from >= Len(s) THEN 0
    ELSE IF ~is_whitespace(s[from + 1]) THEN from
    ELSE find_non_whitespace(s, from + 1)

\* [String]::join("\n")
RECURSIVE join(_)
join(ls) ==
    IF ls = <<>> THEN <<>>
    ELSE IF Len(ls) = 1 THEN ls[1]
    ELSE ls[1] \o <<LF>> \o join(Tail(ls))

\* str::lines: split at each "\n"; a line's "\n" and a "\r" right before it
\* are dropped; text after the last "\n" is a final line, kept as it is;
\* nothing after the last "\n" is no line.  cur is the line read so far.
RECURSIVE str_lines(_, _)
str_lines(s, cur) ==
    IF s = <<>> THEN (IF cur = <<>> THEN <<>> ELSE <<cur>>)
    ELSE IF Head(s) = LF
         THEN LET line == IF cur # <<>> /\ cur[Len(cur)] = CR
                          THEN SubSeq(cur, 1, Len(cur) - 1) ELSE cur
              IN  <<line>> \o str_lines(Tail(s), <<>>)
         ELSE str_lines(Tail(s), Append(cur, Head(s)))

-----------------------------------------------------------------------------
(* View (lib.rs, struct View) *)

View_new(width, height) == [x |-> 0, y |-> 0, width |-> width, height |-> height]

min_x(v) == v.x
max_x(v) == v.x + saturating_sub(v.width, 1)
min_y(v) == v.y
max_y(v) == v.y + saturating_sub(v.height, 1)

\* fn make_view: the terminal's size, one row kept for the status line
make_view == View_new(ViewWidth, ViewHeight)

-----------------------------------------------------------------------------
(* Buffer (lib.rs, struct Buffer), as a record b of its fields, with the   *)
(* flag panicked of the process that owns it.                              *)

Buf == [lines |-> lines, cursor |-> cursor, view |-> view,
        file_path |-> file_path, panicked |-> panicked]

Cursor_default == [x |-> 0, y |-> 0]

\* a panic in an operation on b: the process unwinds and b is dropped
Panic(b) ==
    [lines |-> << <<>> >>, cursor |-> Cursor_default,
     view |-> [b.view EXCEPT !.x = 0, !.y = 0],
     file_path |-> NONE, panicked |-> TRUE]

Buffer_new(v) ==
    [lines |-> << <<>> >>, cursor |-> Cursor_default, view |-> v,
     file_path |-> NONE, panicked |-> FALSE]

\* Buffer::from_path after a successful read of content
Buffer_from_path(path, content, v) ==
    [lines |-> str_lines(content \o <<LF>>, <<>>), cursor |-> Cursor_default,
     view |-> v, file_path |-> path, panicked |-> FALSE]

line_count(b) == Len(b.lines)

\* whether self.lines[self.cursor.y] is an index in bounds
row_ok(b) == b.cursor.y < Len(b.lines)

cur_line(b) == b.lines[b.cursor.y + 1]

cursor_at_line_start(b) == b.cursor.x = 0
cursor_at_line_end(b) == b.cursor.x = Len(cur_line(b))
cursor_at_first_line(b) == b.cursor.y = 0
cursor_at_last_line(b) == b.cursor.y = saturating_sub(Len(b.lines), 1)

\* adjust_view, but a cursor past the view's far edge becomes the near edge
adjust_view_jumping(b) ==
    LET v == b.view
        c == b.cursor
        ny == IF c.y < min_y(v) \/ c.y > max_y(v) THEN c.y ELSE v.y
        nx == IF c.x < min_x(v) \/ c.x > max_x(v) THEN c.x ELSE v.x
    IN  [b EXCEPT !.view = [v EXCEPT !.x = nx, !.y = ny]]

adjust_view(b) ==
    LET v == b.view
        c == b.cursor
        ny == IF c.y < min_y(v) THEN c.y
              ELSE IF c.y > max_y(v) THEN v.y + (c.y - max_y(v))
              ELSE v.y
        nx == IF c.x < min_x(v) THEN c.x
              ELSE IF c.x > max_x(v) THEN v.x + (c.x - max_x(v))
              ELSE v.x
    IN  [b EXCEPT !.view = [v EXCEPT !.x = nx, !.y = ny]]

\* clamp_cursor_to_line_boundaries; the index self.lines[self.cursor.y] panics
\* when the row does not exist
clamp_cursor_to_line_boundaries(b) ==
    IF ~row_ok(b) THEN Panic(b)
    ELSE [b EXCEPT !.cursor.x = min(b.cursor.x, Len(cur_line(b)))]

\* the view follows the cursor unless the operation panicked
then_adjust_view(b) == IF b.panicked THEN b ELSE adjust_view(b)

CursorMovement ==
    {[kind |-> k, n |-> 0] :
        k \in {"Up", "Down", "Left", "Right", "LineStart", "LineEnd",
               "TextStart", "FirstLine", "LastLine"}}
    \cup {[kind |-> "ToLine", n |-> n] : n \in 0 .. MaxLines}

\* move_up_or_down, but the column is kept whatever the new row's length
move_up_or_down_unclamped(b, movement) ==
    IF movement.kind = "Up"
    THEN (IF ~cursor_at_first_line(b) THEN [b EXCEPT !.cursor.y = @ - 1] ELSE b)
    ELSE (IF ~cursor_at_last_line(b) THEN [b EXCEPT !.cursor.y = @ + 1] ELSE b)

move_up_or_down(b, movement) ==
    LET moved == IF movement.kind = "Up"
                 THEN (IF ~cursor_at_first_line(b)
                       THEN [b EXCEPT !.cursor.y = @ - 1] ELSE b)
                 ELSE (IF ~cursor_at_last_line(b)
                       THEN [b EXCEPT !.cursor.y = @ + 1] ELSE b)
    IN  clamp_cursor_to_line_boundaries(moved)

\* move_left, but at a line's start it lands on the start of the row above
move_left_to_row_start(b) ==
    IF cursor_at_line_start(b)
    THEN IF ~cursor_at_first_line(b)
         THEN IF b.cursor.y - 1 >= Len(b.lines) THEN Panic(b)
              ELSE [b EXCEPT !.cursor = [x |-> 0, y |-> b.cursor.y - 1]]
         ELSE b
    ELSE [b EXCEPT !.cursor.x = @ - 1]

move_left(b) ==
    IF cursor_at_line_start(b)
    THEN IF ~cursor_at_first_line(b)
         THEN \* move_up, then line_len(self.cursor.y) indexes the row above
              IF b.cursor.y - 1 >= Len(b.lines) THEN Panic(b)
              ELSE [b EXCEPT !.cursor = [x |-> Len(b.lines[b.cursor.y]),
                                         y |-> b.cursor.y - 1]]
         ELSE b
    ELSE [b EXCEPT !.cursor.x = @ - 1]

\* move_right, but at a line's end the next line is drawn up to the cursor
move_right_joining(b) ==
    IF ~row_ok(b) THEN Panic(b)
    ELSE IF cursor_at_line_end(b)
         THEN IF ~cursor_at_last_line(b)
              THEN [b EXCEPT !.lines =
                      SubSeq(b.lines, 1, b.cursor.y)
                      \o <<cur_line(b) \o b.lines[b.cursor.y + 2]>>
                      \o SubSeq(b.lines, b.cursor.y + 3, Len(b.lines))]
              ELSE b
         ELSE [b EXCEPT !.cursor.x = @ + 1]

move_right(b) ==
    IF ~row_ok(b) THEN Panic(b)     \* cursor_at_line_end indexes the row
    ELSE IF cursor_at_line_end(b)
         THEN IF ~cursor_at_last_line(b)
              THEN [b EXCEPT !.cursor = [x |-> 0, y |-> b.cursor.y + 1]]
              ELSE b
         ELSE [b EXCEPT !.cursor.x = @ + 1]

move_to_line(b, line_number) ==
    [b EXCEPT !.cursor = [x |-> 0, y |-> line_number]]

move_cursor(b, movement) ==
    then_adjust_view(
        CASE movement.kind \in {"Up", "Down"} -> move_up_or_down(b, movement)
          [] movement.kind = "Left" -> move_left(b)
          [] movement.kind = "Right" -> move_right(b)
          [] movement.kind = "LineStart" -> [b EXCEPT !.cursor.x = 0]
          [] movement.kind = "LineEnd" ->
                IF ~row_ok(b) THEN Panic(b)
                ELSE [b EXCEPT !.cursor.x = Len(cur_line(b))]
          [] movement.kind = "TextStart" ->
                IF ~row_ok(b) THEN Panic(b)
                ELSE [b EXCEPT !.cursor.x = find_non_whitespace(cur_line(b), 0)]
          [] movement.kind = "FirstLine" -> [b EXCEPT !.cursor = [x |-> 0, y |-> 0]]
          [] movement.kind = "LastLine" ->
                [b EXCEPT !.cursor = [x |-> 0, y |-> saturating_sub(line_count(b), 1)]]
          [] movement.kind = "ToLine" -> move_to_line(b, movement.n))

\* Vec::splice(first..=last, once(concatenation)): the range must lie in the
\* vector (first <= last + 1 <= len), else the slice index panics
join_lines(b, first, last) ==
    IF ~(first <= last + 1 /\ last + 1 <= Len(b.lines)) THEN Panic(b)
    ELSE [b EXCEPT !.lines =
            SubSeq(b.lines, 1, first)
            \o <<concat(SubSeq(b.lines, first + 1, last + 1))>>
            \o SubSeq(b.lines, last + 2, Len(b.lines))]

\* String::insert / String::insert_str at a byte offset, which must be a char
\* boundary of the row
insert_bytes(b, bytes, advance) ==
    IF ~row_ok(b) THEN Panic(b)
    ELSE IF ~is_char_boundary(cur_line(b), b.cursor.x) THEN Panic(b)
    ELSE adjust_view(
           [b EXCEPT !.lines[b.cursor.y + 1] =
                        Take(@, b.cursor.x) \o bytes \o Skip(@, b.cursor.x),
                     !.cursor.x = @ + advance])

\* character is one char, given as its UTF-8 bytes; Cursor::move_right adds 1
insert_char(b, character) == insert_bytes(b, character, 1)

insert_string(b, string) == insert_bytes(b, string, Len(string))

remove_char(b) ==
    IF ~row_ok(b) THEN Panic(b)
    ELSE IF cursor_at_line_end(b)
         THEN IF ~cursor_at_last_line(b)
              THEN join_lines(b, b.cursor.y, b.cursor.y + 1)
              ELSE b
         ELSE \* String::remove: slices self[idx..] and drops its first char
              IF ~is_char_boundary(cur_line(b), b.cursor.x) THEN Panic(b)
              ELSE [b EXCEPT !.lines[b.cursor.y + 1] =
                        Take(@, b.cursor.x)
                        \o Skip(@, b.cursor.x + len_utf8_at(@, b.cursor.x))]

insert_line(b) ==
    IF ~row_ok(b) THEN Panic(b)
    ELSE IF ~is_char_boundary(cur_line(b), b.cursor.x) THEN Panic(b)
    ELSE adjust_view(
           [b EXCEPT !.lines =
                        SubSeq(b.lines, 1, b.cursor.y)
                        \o <<Take(cur_line(b), b.cursor.x), Skip(cur_line(b), b.cursor.x)>>
                        \o SubSeq(b.lines, b.cursor.y + 2, Len(b.lines)),
                     !.cursor = [x |-> 0, y |-> b.cursor.y + 1]])

\* remove_line, but an emptied line store is left empty
remove_line_no_refill(b) ==
    LET should_move_cursor_up == cursor_at_last_line(b) /\ line_count(b) > 1
    IN  IF ~row_ok(b) THEN Panic(b)
        ELSE [b EXCEPT !.lines = SubSeq(b.lines, 1, b.cursor.y)
                                 \o SubSeq(b.lines, b.cursor.y + 2, Len(b.lines)),
                       !.cursor = [x |-> 0,
                                   y |-> IF should_move_cursor_up
                                         THEN b.cursor.y - 1 ELSE b.cursor.y]]

\* remove_line, but the cursor moves up a row whichever row is removed
remove_line_always_up(b) ==
    IF ~row_ok(b) THEN Panic(b)
    ELSE LET removed == SubSeq(b.lines, 1, b.cursor.y)
                        \o SubSeq(b.lines, b.cursor.y + 2, Len(b.lines))
         IN  [b EXCEPT !.lines = IF removed = <<>> THEN << <<>> >> ELSE removed,
                       !.cursor = [x |-> 0, y |-> saturating_sub(b.cursor.y, 1)]]

remove_line(b) ==
    LET should_move_cursor_up == cursor_at_last_line(b) /\ line_count(b) > 1
    IN  IF ~row_ok(b) THEN Panic(b)        \* Vec::remove index out of bounds
        ELSE LET removed == SubSeq(b.lines, 1, b.cursor.y)
                            \o SubSeq(b.lines, b.cursor.y + 2, Len(b.lines))
             IN  [b EXCEPT !.lines = IF removed = <<>> THEN << <<>> >> ELSE removed,
                           !.cursor = [x |-> 0,
                                       y |-> IF should_move_cursor_up
                                             THEN b.cursor.y - 1 ELSE b.cursor.y]]

\* display(): a line cropped to the view's columns, char by char
crop_line(line, v) ==
    LET cs == chars(line)
    IN  concat(SubSeq(cs, min_x(v) + 1, min(min_x(v) + v.width, Len(cs))))

\* display(): the lines of the Screen
display_lines(b) ==
    LET empty_count == saturating_sub(max_y(b.view) + 1, line_count(b))
        from == min(min_y(b.view), Len(b.lines))
        upto == min(from + b.view.height, Len(b.lines))
    IN  [i \in 1 .. (upto - from) |-> crop_line(b.lines[from + i], b.view)]
        \o [i \in 1 .. empty_count |-> <<>>]

\* display(): whether cursor.x - view.min_x() or cursor.y - view.min_y()
\* underflows usize
display_underflows(b) ==
    b.cursor.x < min_x(b.view) \/ b.cursor.y < min_y(b.view)

\* display(): the Screen's cursor, when neither subtraction underflows
display_cursor(b) ==
    [x |-> b.cursor.x - min_x(b.view), y |-> b.cursor.y - min_y(b.view)]

-----------------------------------------------------------------------------
(* Persistence.  A call returns the buffer, its io::Result and the          *)
(* file-system call it made.                                                *)

\* the file-system call of an operation
NoIO == [kind |-> "none", path |-> NONE, bytes |-> <<>>]
Read(path, bytes) == [kind |-> "read", path |-> path, bytes |-> bytes]
Write(path, bytes) == [kind |-> "write", path |-> path, bytes |-> bytes]
WriteFailed(path) == [kind |-> "write_failed", path |-> path, bytes |-> <<>>]

\* save_as, but the path written to is not kept
save_as_forgets_path(b, path, write_ok) ==
    IF write_ok
    THEN [buf |-> b, result |-> "Ok", io |-> Write(path, join(b.lines))]
    ELSE [buf |-> b, result |-> "IoError", io |-> WriteFailed(path)]

\* save_as: std::fs::write(path, lines.join("\n"))?, then the path is kept;
\* write_ok is whether the file system performs the write
save_as(b, path, write_ok) ==
    IF write_ok
    THEN [buf |-> [b EXCEPT !.file_path = path], result |-> "Ok",
          io |-> Write(path, join(b.lines))]
    ELSE [buf |-> b, result |-> "IoError", io |-> WriteFailed(path)]

\* save: self.file_path.clone().unwrap() panics when there is no path
save(b, write_ok) ==
    IF b.file_path = NONE
    THEN [buf |-> Panic(b), result |-> "Panic", io |-> NoIO]
    ELSE save_as(b, b.file_path, write_ok)

-----------------------------------------------------------------------------
(* Inputs. *)

\* the chars a caller inserts
Chars == {CharA, CharE}

\* the strings a caller inserts: one or two chars
Strings == Chars \cup {c1 \o c2 : c1 \in Chars, c2 \in Chars}

Paths == {"p", "q"}

FileBytes == {"a", CR, LF}

\* the contents of a file: every byte string of at most MaxFileLen bytes
FileContents == UNION {[1 .. n -> FileBytes] : n \in 0 .. MaxFileLen}

\* whether a buffer is within the bounds of the model
FitsBounds(b) ==
    /\ Len(b.lines) <= MaxLines
    /\ Len(concat(b.lines)) <= MaxBytes

-----------------------------------------------------------------------------
(* State. *)

\* what has happened to the terminal, in order: the calls of
\* terminal::AlternateScreen and the message main prints.  A caller of the
\* buffer alone has no AlternateScreen.
NoScreen == <<>>

\* AlternateScreen::new: the alternate screen is entered, raw mode enabled
AlternateScreen_new == <<"EnterAlternateScreen">>

\* stands for drop, leaving out the release
forget_screen(s) == s

\* Drop for AlternateScreen: raw mode disabled, the alternate screen left
drop_screen(s) == Append(s, "LeaveAlternateScreen")

\* println!("{description}") of main's failed startup
println(s) == Append(s, "println")

Op(name, n) == [name |-> name, n |-> n]

SetBuf(b) ==
    /\ lines' = b.lines
    /\ cursor' = b.cursor
    /\ view' = b.view
    /\ file_path' = b.file_path
    /\ panicked' = b.panicked

IsBuf(b) ==
    /\ lines = b.lines
    /\ cursor = b.cursor
    /\ view = b.view
    /\ file_path = b.file_path
    /\ panicked = b.panicked

\* a buffer just constructed, by Buffer::new or by Buffer::from_path
InitNew ==
    /\ IsBuf(Buffer_new(make_view))
    /\ lastOp = Op("new", 0)
    /\ io = NoIO

InitFromPath(contents) ==
    \E content \in contents :
        /\ IsBuf(Buffer_from_path("p", content, make_view))
        /\ lastOp = Op("from_path", 0)
        /\ io = Read("p", content)

Init ==
    /\ \/ InitNew
       \/ InitFromPath({c \in FileContents :
                          /\ FitsBounds(Buffer_from_path("p", c, make_view))})
    /\ result = "Ok"
    /\ mode = "Normal"
    /\ status = "running"
    /\ screen = NoScreen

-----------------------------------------------------------------------------
(* The operations of Buffer, each called by an arbitrary caller. *)

Live == ~panicked /\ status = "running"

\* a call that returns nothing and touches no file
Call(name, n, b) ==
    /\ SetBuf(b)
    /\ lastOp' = Op(name, n)
    /\ result' = "Ok"
    /\ io' = NoIO
    /\ UNCHANGED <<mode, status, screen>>

\* move_cursor with a movement among movements
MoveCursorBy(movements) ==
    /\ Live
    /\ \E movement \in movements :
          \* Right off a column past the line's end would count up for ever
          /\ movement.kind = "Right" => cursor.x <= MaxBytes
          /\ Call(movement.kind, movement.n, move_cursor(Buf, movement))

MoveCursor == MoveCursorBy(CursorMovement)

InsertChar ==
    /\ Live
    /\ \E character \in Chars :
          /\ FitsBounds(insert_char(Buf, character))
          /\ Call("insert_char", 0, insert_char(Buf, character))

InsertString ==
    /\ Live
    /\ \E string \in Strings :
          /\ FitsBounds(insert_string(Buf, string))
          /\ Call("insert_string", 0, insert_string(Buf, string))

RemoveChar ==
    /\ Live
    /\ Call("remove_char", 0, remove_char(Buf))

InsertLine ==
    /\ Live
    /\ Len(lines) < MaxLines
    /\ Call("insert_line", 0, insert_line(Buf))

\* lastOp.n is the line count before the call
RemoveLine ==
    /\ Live
    /\ Call("remove_line", Len(lines), remove_line(Buf))

\* join_lines called as its contract asks: first <= last < line_count
JoinLines ==
    /\ Live
    /\ \E first \in 0 .. MaxLines, last \in 0 .. MaxLines :
          /\ first <= last /\ last < Len(lines)
          /\ Call("join_lines", 0, join_lines(Buf, first, last))

\* every movement and mutation, ToLine with any line number
Next ==
    \/ MoveCursor
    \/ InsertChar
    \/ InsertString
    \/ RemoveChar
    \/ InsertLine
    \/ RemoveLine

Spec == Init /\ [][Next]_vars

\* the same, ToLine only with the number of an existing line
MoveCursorValid ==
    MoveCursorBy({m \in CursorMovement : m.kind = "ToLine" => m.n < Len(lines)})

ValidNext ==
    \/ MoveCursorValid
    \/ InsertChar
    \/ InsertString
    \/ RemoveChar
    \/ InsertLine
    \/ RemoveLine

SpecValid == Init /\ [][ValidNext]_vars

\* the same, and join_lines called directly
JoinNext ==
    \/ ValidNext
    \/ JoinLines

SpecJoin == Init /\ [][JoinNext]_vars

-----------------------------------------------------------------------------
(* Loading, editing and saving: any file of at most MaxFileLen bytes is    *)
(* loaded, and the caller saves between edits.                             *)

FileInit ==
    /\ InitNew \/ InitFromPath(FileContents)
    /\ result = "Ok"
    /\ mode = "Normal"
    /\ status = "running"
    /\ screen = NoScreen

\* a call of save or save_as; lastOp.n is 1 when the call comes right after
\* from_path
Saved(name, r) ==
    /\ SetBuf(r.buf)
    /\ lastOp' = Op(name, IF lastOp.name = "from_path" THEN 1 ELSE 0)
    /\ result' = r.result
    /\ io' = r.io
    /\ UNCHANGED <<mode, status, screen>>

Save ==
    /\ Live
    /\ \E write_ok \in BOOLEAN : Saved("save", save(Buf, write_ok))

SaveAs ==
    /\ Live
    /\ \E path \in Paths, write_ok \in BOOLEAN :
          Saved("save_as", save_as(Buf, path, write_ok))

FileNext ==
    \/ Save
    \/ SaveAs
    \/ InsertChar
    \/ RemoveChar
    \/ InsertLine
    \/ RemoveLine

SpecFile == FileInit /\ [][FileNext]_vars

-----------------------------------------------------------------------------
(* The editing session of fn main (main.rs): one step per key event, the   *)
(* whole handler with the render that ends it.  When main returns or the   *)
(* process panics the buffer is dropped.                                    *)

\* fn render: display() panics on an underflow when the build checks
\* overflow; render_screen fails on a Screen without lines; writing to the
\* terminal fails when tty_ok is false
render(b, tty_ok, overflow_checks) ==
    IF display_underflows(b) /\ overflow_checks THEN "Panic"
    ELSE IF display_lines(b) = <<>> \/ ~tty_ok THEN "RenderError"
    ELSE "Ok"

\* the key codes fn main matches on in both modes; in Insert mode the chars
\* "a" and "e'" are typed, "q" .. ":" are Normal-mode commands
Keys == {"q", "i", "a", "I", "A", "o", "d", "D", "k", "j", "h", "l", "K", "J",
         "H", "L", "S", "Home", "End", "Esc", "Delete", "Backspace", "Enter",
         "Tab", "e'"}

Move(kind) == [kind |-> kind, n |-> 0]

\* KeyCode::Tab inserts four spaces
TabString == <<" ", " ", " ", " ">>

\* the match of fn main on (mode, key code), but for "q" and ":"
key_event(b, m, key) ==
    LET stay(nb) == [buf |-> nb, mode |-> m]
        insert(nb) == [buf |-> nb, mode |-> "Insert"]
        chained(nb, op(_)) == IF nb.panicked THEN nb ELSE op(nb)
    IN  CASE m = "Insert" /\ key = "Esc" -> [buf |-> b, mode |-> "Normal"]
          [] m = "Normal" /\ key = "i" -> insert(b)
          [] m = "Normal" /\ key = "a" -> insert(move_cursor(b, Move("Right")))
          [] m = "Normal" /\ key = "I" -> insert(move_cursor(b, Move("TextStart")))
          [] m = "Normal" /\ key = "A" -> insert(move_cursor(b, Move("LineEnd")))
          [] m = "Normal" /\ key = "o" ->
                insert(chained(move_cursor(b, Move("LineEnd")), insert_line))
          [] m = "Normal" /\ key = "d" -> stay(remove_char(b))
          [] m = "Normal" /\ key = "D" -> stay(remove_line(b))
          [] m = "Normal" /\ key = "k" -> stay(move_cursor(b, Move("Up")))
          [] m = "Normal" /\ key = "j" -> stay(move_cursor(b, Move("Down")))
          [] m = "Normal" /\ key = "h" -> stay(move_cursor(b, Move("Left")))
          [] m = "Normal" /\ key = "l" -> stay(move_cursor(b, Move("Right")))
          [] m = "Normal" /\ key = "K" -> stay(move_cursor(b, Move("FirstLine")))
          [] m = "Normal" /\ key = "J" -> stay(move_cursor(b, Move("LastLine")))
          [] m = "Normal" /\ key = "H" -> stay(move_cursor(b, Move("LineStart")))
          [] m = "Normal" /\ key = "L" -> stay(move_cursor(b, Move("LineEnd")))
          [] m = "Normal" /\ key = "S" -> stay(move_cursor(b, Move("TextStart")))
          [] key = "Home" -> stay(move_cursor(b, Move("LineStart")))
          [] key = "End" -> stay(move_cursor(b, Move("LineEnd")))
          [] m = "Insert" /\ key = "Delete" -> stay(remove_char(b))
          [] m = "Insert" /\ key = "Backspace" ->
                stay(chained(move_cursor(b, Move("Left")), remove_char))
          [] m = "Insert" /\ key = "Enter" -> stay(insert_line(b))
          [] m = "Insert" /\ key = "Tab" -> stay(insert_string(b, TabString))
          [] m = "Insert" /\ key = "a" -> stay(insert_char(b, CharA))
          [] m = "Insert" /\ key = "e'" -> stay(insert_char(b, CharE))
          [] OTHER -> stay(b)

\* the contents of the files the session opens: at most one byte
OpenContents == {c \in FileContents : Len(c) <= 1}

\* what is typed at the ":" prompt before Enter, with what the environment
\* answers: whether the write succeeds, what the opened file holds or that
\* it cannot be read, whether the directory can be entered
Commands ==
    {[cmd |-> "w", write_ok |-> ok] : ok \in BOOLEAN}
    \cup {[cmd |-> "w_path", path |-> path, write_ok |-> ok] :
            path \in Paths, ok \in BOOLEAN}
    \cup {[cmd |-> "o", path |-> "p", content |-> c] : c \in OpenContents}
    \cup {[cmd |-> "cd", ok |-> ok] : ok \in BOOLEAN}
    \cup {[cmd |-> "g", n |-> n] : n \in 0 .. MaxLines + 1}
    \cup {[cmd |-> "o_unreadable"], [cmd |-> "g_not_a_number"],
          [cmd |-> "bad_path"], [cmd |-> "other"]}

\* fn process_command: the buffer, the anyhow::Result and the file-system call
process_command(b, command) ==
    LET ok(nb) == [buf |-> nb, result |-> "Ok", io |-> NoIO]
        err(kind) == [buf |-> b, result |-> kind, io |-> NoIO]
    IN  CASE command.cmd = "w" -> save(b, command.write_ok)
          [] command.cmd = "w_path" -> save_as(b, command.path, command.write_ok)
          [] command.cmd = "o" ->
                [buf |-> Buffer_from_path(command.path, command.content, make_view),
                 result |-> "Ok", io |-> Read(command.path, command.content)]
          [] command.cmd = "o_unreadable" -> err("LoadError")
          [] command.cmd = "cd" -> IF command.ok THEN ok(b) ELSE err("CdError")
          [] command.cmd = "g" ->
                ok(move_cursor(b, [kind |-> "ToLine", n |-> saturating_sub(command.n, 1)]))
          [] command.cmd = "g_not_a_number" -> err("ParseError")
          \* shellexpand::full fails on the argument of w, o or cd
          [] command.cmd = "bad_path" -> err("ExpandError")
          [] OTHER -> ok(b)

\* the state once main has returned or the process has panicked
Ended(how, name, res, fs) ==
    /\ SetBuf([Buffer_new(view) EXCEPT !.panicked = (how = "panicked")])
    /\ status' = how
    \* _screen is dropped when main returns and when a panic unwinds; a
    \* build with panic = "abort" ends the process with the screen held
    /\ \/ screen' = drop_screen(screen)
       \/ how = "panicked" /\ screen' = screen
    /\ lastOp' = Op(name, 0)
    /\ result' = res
    /\ io' = fs
    /\ UNCHANGED mode

\* the end of a handler: render, then the next event is awaited; a build
\* either checks overflow or does not, which shows only when display()
\* underflows
Rendered(b, m, name, fs, tty_ok) ==
    IF b.panicked THEN Ended("panicked", name, "Panic", fs)
    ELSE \E overflow_checks \in (IF display_underflows(b) THEN BOOLEAN ELSE {FALSE}) :
            LET shown == render(b, tty_ok, overflow_checks)
            IN  IF shown = "Panic" THEN Ended("panicked", name, "Panic", fs)
                ELSE IF shown # "Ok" THEN Ended("error", name, shown, fs)
                ELSE /\ SetBuf(b)
                     /\ mode' = m
                     /\ lastOp' = Op(name, 0)
                     /\ result' = "Ok"
                     /\ io' = fs
                     /\ UNCHANGED <<status, screen>>

\* main before its loop: the buffer from the arguments, and the first render
MainInit ==
    /\ mode = "Normal"
    /\ \/ /\ InitNew \/ InitFromPath(OpenContents)
          /\ result = "Ok"
          /\ status = "running"
          /\ screen = AlternateScreen_new
       \/ \* the file cannot be read, or there are two arguments or more
          /\ IsBuf(Buffer_new(make_view))
          /\ lastOp = Op("new", 0)
          /\ io = NoIO
          /\ result = "StartupError"
          /\ status = "startup_failed"
          \* drop(_screen) comes before println!
          /\ screen = println(drop_screen(AlternateScreen_new))

Quit ==
    /\ Live
    /\ mode = "Normal"
    /\ Ended("quit", "q", "Ok", NoIO)

\* any key but "q" and ":".  Whatever the key, a terminal that fails ends
\* main with the render's error.
Key ==
    /\ Live
    /\ \/ \E key \in Keys \ {"q"} :
             LET after == key_event(Buf, mode, key)
             IN  /\ FitsBounds(after.buf)
                 /\ key \in {"l", "a"} => cursor.x <= MaxBytes
                 /\ Rendered(after.buf, after.mode, "key", NoIO, TRUE)
       \/ Rendered(key_event(Buf, mode, "Home").buf, mode, "key", NoIO, FALSE)

\* ":" in Normal mode: read_command to Esc or Enter, then process_command.
\* lastOp names the command when it is w or w <path>.
Command ==
    /\ Live
    /\ mode = "Normal"
    /\ \/ \* Esc at the prompt
          \E tty_ok \in BOOLEAN : Rendered(Buf, mode, ":", NoIO, tty_ok)
       \/ \E command \in Commands :
             LET done == process_command(Buf, command)
                 name == IF command.cmd \in {"w", "w_path"} THEN command.cmd ELSE ":"
             IN  IF done.buf.panicked THEN Ended("panicked", name, "Panic", done.io)
                 ELSE IF done.result # "Ok" THEN Ended("error", name, done.result, done.io)
                 ELSE \E tty_ok \in BOOLEAN :
                         Rendered(done.buf, mode, name, done.io, tty_ok)

\* event::read() fails: the loop `while let Ok(event)` ends and main
\* returns Ok(())
ReadFailed ==
    /\ Live
    /\ Ended("quit", "read", "Ok", NoIO)

MainNext ==
    \/ Quit
    \/ Key
    \/ Command
    \/ ReadFailed

SpecMain == MainInit /\ [][MainNext]_vars

-----------------------------------------------------------------------------
(* Properties. *)

Movements == {"Up", "Down", "Left", "Right", "LineStart", "LineEnd",
              "TextStart", "FirstLine", "LastLine", "ToLine"}

Mutations == {"insert_char", "insert_string", "remove_char", "insert_line",
              "remove_line", "join_lines"}

\* the cursor is on an existing row, at most one past the row's last byte
ValidCursor(b) ==
    /\ b.cursor.y < Len(b.lines)
    /\ b.cursor.x <= Len(b.lines[b.cursor.y + 1])

\* C1: after any sequence of movements (ToLine with any n) and mutations on
\* a new or loaded buffer, cursor.y < line_count() and
\* cursor.x <= length(line[cursor.y]).
CursorInBounds == ~panicked => ValidCursor(Buf)

\* C2: after every public operation the viewport contains the cursor on both
\* axes: min_y <= cursor.y <= max_y and min_x <= cursor.x <= max_x.
ViewContainsCursor ==
    ~panicked =>
        /\ min_y(view) <= cursor.y /\ cursor.y <= max_y(view)
        /\ min_x(view) <= cursor.x /\ cursor.x <= max_x(view)

\* C3: in every reachable state the buffer has at least one line, and
\* remove_line on a single-line buffer leaves exactly one empty line.
LineCountAtLeastOne ==
    ~panicked =>
        /\ Len(lines) >= 1
        /\ lastOp = Op("remove_line", 1) => lines = << <<>> >>

\* C3, its case: remove_line has just returned from a call on a single-line
\* buffer
RemoveLineOnSingleLine ==
    /\ ~panicked
    /\ lastOp = Op("remove_line", 1)
    /\ lines = << <<>> >>

\* C4: move_cursor(ToLine(n)) leaves the cursor at column 0 of row n, or of
\* the last row when n >= line_count().
ToLineClamps ==
    (~panicked /\ lastOp.name = "ToLine") =>
        /\ cursor.x = 0
        /\ cursor.y = min(lastOp.n, Len(lines) - 1)

\* C5: save() on a buffer with no associated path returns a NoAssociatedPath
\* failure and leaves lines, cursor, viewport and the absent path unchanged.
SaveWithoutPathReturnsError ==
    [][(~panicked /\ file_path = NONE /\ lastOp'.name = "save") =>
          /\ ~panicked'
          /\ result' = "NoAssociatedPath"
          /\ UNCHANGED <<lines, cursor, view, file_path>>]_vars

\* C6: display() returns exactly view.height lines: the buffer lines in the
\* viewport's row range, then empty lines where the buffer has none.
DisplayHasHeightLines ==
    ~panicked =>
        display_lines(Buf) =
            [i \in 1 .. view.height |->
                IF view.y + i <= Len(lines)
                THEN crop_line(lines[view.y + i], view) ELSE <<>>]

\* C7: a save that fails during the session (w or w <path>: a write error, or
\* no associated path) does not end the session: the editor stays in its
\* loop with lines, cursor, viewport and associated path unchanged.
SaveFailureKeepsSession ==
    [][(Live /\ lastOp'.name \in {"w", "w_path"} /\ io'.kind # "write") =>
          /\ status' = "running" /\ ~panicked'
          /\ UNCHANGED <<lines, cursor, view, file_path>>]_vars

\* C8: every mutation, join_lines(first, last) with first <= last <
\* line_count() included, leaves the cursor on an existing row and at most one
\* past the row's end.
MutationKeepsCursorInBounds ==
    (~panicked /\ lastOp.name \in Mutations) => ValidCursor(Buf)

EndsInOneNewline(bytes) ==
    /\ Len(bytes) >= 1
    /\ bytes[Len(bytes)] = LF
    /\ Len(bytes) >= 2 => bytes[Len(bytes) - 1] # LF

\* a save() that succeeds right after from_path writes, to the file read, the
\* bytes read
SavesWhatWasRead ==
    (lastOp.name = "from_path" /\ lastOp'.name = "save" /\ result' = "Ok") =>
        io' = Write(io.path, io.bytes)

\* C9: load then immediate save writes the bytes read, for every
\* file that ends in exactly one newline.
RoundTripIdentity ==
    [][EndsInOneNewline(io.bytes) => SavesWhatWasRead]_vars

Left == [kind |-> "Left", n |-> 0]
Right == [kind |-> "Right", n |-> 0]

\* C10: from a valid cursor with column >= 1, Left then Right restores the
\* cursor; from the end of a line that is not the last, Right then Left does.
LeftRightInverse ==
    (~panicked /\ ValidCursor(Buf)) =>
        /\ cursor.x >= 1 =>
              LET back == move_cursor(move_cursor(Buf, Left), Right)
              IN  ~back.panicked /\ back.cursor = cursor
        /\ (cursor_at_line_end(Buf) /\ ~cursor_at_last_line(Buf)) =>
              LET back == move_cursor(move_cursor(Buf, Right), Left)
              IN  ~back.panicked /\ back.cursor = cursor

\* C10, its case: a cursor past column 0 at the end of a line that is not the
\* last, where Left and Right each move it
LeftRightCase ==
    /\ ~panicked /\ ValidCursor(Buf)
    /\ cursor.x >= 1
    /\ cursor_at_line_end(Buf) /\ ~cursor_at_last_line(Buf)
    /\ move_cursor(Buf, Left).cursor = [x |-> cursor.x - 1, y |-> cursor.y]
    /\ move_cursor(Buf, Right).cursor = [x |-> 0, y |-> cursor.y + 1]

\* the lines with row y (counted from 0) replaced by the rows in rows
ReplaceRow(ls, y, rows) ==
    SubSeq(ls, 1, y) \o rows \o SubSeq(ls, y + 2, Len(ls))

\* the first char of s, as its bytes
FirstChar(s) == Head(chars(s))

\* C11: remove_char is a forward delete that never moves the cursor: at the
\* end of a line that is not the last, the line and the next become their
\* concatenation; at the end of the last line nothing changes; otherwise
\* exactly the char at column cursor.x of the line is removed.
RemoveCharIsForwardDelete ==
    [][(Live /\ ValidCursor(Buf) /\ lastOp'.name = "remove_char") =>
          /\ ~panicked'
          /\ cursor' = cursor
          /\ LET y == cursor.y
                 x == cursor.x
                 row == lines[y + 1]
             IN  lines' =
                   IF x = Len(row)
                   THEN IF y + 1 < Len(lines)
                        THEN SubSeq(lines, 1, y) \o <<row \o lines[y + 2]>>
                             \o SubSeq(lines, y + 3, Len(lines))
                        ELSE lines
                   ELSE ReplaceRow(lines, y,
                          <<Take(row, x)
                            \o Skip(row, x + Len(FirstChar(Skip(row, x))))>>)]_vars

\* C12: insert_line with the cursor at (x, y) splits row y into its first x
\* characters and the rest, as rows y and y + 1; the other rows keep content
\* and order; the cursor ends at (0, y + 1).
InsertLineSplitsRow ==
    [][(Live /\ ValidCursor(Buf) /\ lastOp'.name = "insert_line") =>
          /\ ~panicked'
          /\ cursor' = [x |-> 0, y |-> cursor.y + 1]
          /\ Len(lines') = Len(lines) + 1
          /\ LET row == lines[cursor.y + 1]
             IN  lines' = ReplaceRow(lines, cursor.y,
                            <<Take(row, cursor.x), Skip(row, cursor.x)>>)]_vars

\* C13: after a successful save_as(path) the associated path is path, and a
\* bare save() writes to the associated path; a save() or save_as(path) whose
\* write fails leaves associated path, lines, cursor and viewport unchanged.
SaveAsRemembersPath ==
    [][/\ (Live /\ lastOp'.name = "save_as" /\ result' = "Ok") =>
              /\ io'.kind = "write"
              /\ file_path' = io'.path
       /\ (Live /\ file_path # NONE /\ lastOp'.name = "save" /\ result' = "Ok") =>
              /\ io' = Write(file_path, join(lines))
              /\ file_path' = file_path
       /\ (Live /\ lastOp'.name \in {"save", "save_as"} /\ io'.kind = "write_failed") =>
              /\ ~panicked'
              /\ result' = "IoError"
              /\ UNCHANGED <<lines, cursor, view, file_path>>]_vars

\* C13, its case: a bare save() has written to the path "q", which only a
\* save_as can have made the associated path
SavedToPathOfSaveAs ==
    /\ lastOp.name = "save"
    /\ result = "Ok"
    /\ io.kind = "write" /\ io.path = "q"
    /\ file_path = "q"

\* the operations that end with adjust_view
Adjusting == Movements \cup {"insert_char", "insert_string", "insert_line"}

\* the offset that keeps a cursor coordinate c in a view of offset and size
\* given, moving the least
MinimalMotion(c, offset, size) ==
    LET lo == offset
        hi == offset + saturating_sub(size, 1)
    IN  IF c < lo THEN c
        ELSE IF c > hi THEN offset + (c - hi)
        ELSE offset

\* C14: the viewport adjustment at the end of move_cursor, insert_char,
\* insert_string and insert_line moves each offset the least: not at all when
\* the cursor is in the view, to the cursor when it is before the view, by
\* cursor - max when it is beyond; afterwards the cursor is in the view, and
\* width and height are those given at construction.
AdjustViewIsMinimalMotion ==
    [][(Live /\ lastOp'.name \in Adjusting /\ ~panicked') =>
          /\ view'.x = MinimalMotion(cursor'.x, view.x, view.width)
          /\ view'.y = MinimalMotion(cursor'.y, view.y, view.height)
          /\ min_x(view') <= cursor'.x /\ cursor'.x <= max_x(view')
          /\ min_y(view') <= cursor'.y /\ cursor'.y <= max_y(view')
          /\ view'.width = ViewWidth /\ view'.height = ViewHeight]_vars

\* C14, its case: insert_string has put the cursor beyond the view's last
\* column, and the view has moved so that the cursor is on its last column
ViewFollowedCursor ==
    /\ ~panicked
    /\ lastOp.name = "insert_string"
    /\ cursor.x = Len(lines[cursor.y + 1])
    /\ view.x >= 1
    /\ cursor.x = max_x(view)

\* C15: remove_line deletes exactly the cursor's row and keeps the other rows
\* in order; cursor.x becomes 0; cursor.y decreases by one when the row was
\* the last of several and is unchanged otherwise; deleting the only row
\* leaves one empty row with the cursor at (0, 0).
RemoveLineDeletesCursorRow ==
    [][(Live /\ ValidCursor(Buf) /\ lastOp'.name = "remove_line") =>
          /\ ~panicked'
          /\ lines' = IF Len(lines) = 1 THEN << <<>> >>
                      ELSE ReplaceRow(lines, cursor.y, <<>>)
          /\ cursor'.x = 0
          /\ cursor'.y = IF cursor.y = Len(lines) - 1 /\ Len(lines) > 1
                         THEN cursor.y - 1 ELSE cursor.y]_vars

\* C15, its case: remove_line has removed one of three rows, a row that is
\* not empty is kept, and the cursor is on the second of the two rows left
RemovedOneOfThreeRows ==
    /\ ~panicked
    /\ lastOp = Op("remove_line", 3)
    /\ Len(lines) = 2
    /\ \E i \in 1 .. 2 : lines[i] # <<>>
    /\ cursor = [x |-> 0, y |-> 1]

\* C16: in every reachable state the cursor of display() is the buffer's
\* cursor relative to the viewport, neither subtraction underflows, and it
\* is a cell of the displayed rectangle.
DisplayCursorInRectangle ==
    ~panicked =>
        /\ ~display_underflows(Buf)
        /\ display_cursor(Buf).x <= max_x(view) - min_x(view)
        /\ display_cursor(Buf).y <= max_y(view) - min_y(view)

Up == [kind |-> "Up", n |-> 0]
Down == [kind |-> "Down", n |-> 0]

\* C17: Up and Down change the row by one, clamped to [0, line_count() - 1],
\* and set the column to min(previous cursor.x, length of the resulting
\* row); no column is remembered, so Down then Up across a shorter line ends
\* at the shorter line's length.
UpDownClampColumn ==
    [][/\ (Live /\ ValidCursor(Buf) /\ lastOp'.name \in {"Up", "Down"}) =>
              /\ ~panicked'
              /\ lines' = lines
              /\ cursor'.y = IF lastOp'.name = "Up"
                             THEN saturating_sub(cursor.y, 1)
                             ELSE min(cursor.y + 1, Len(lines) - 1)
              /\ cursor'.x = min(cursor.x, Len(lines[cursor'.y + 1]))
       /\ (Live /\ ValidCursor(Buf) /\ cursor.y + 1 < Len(lines)
                /\ Len(lines[cursor.y + 2]) < cursor.x) =>
              move_cursor(move_cursor(Buf, Down), Up).cursor =
                  [x |-> Len(lines[cursor.y + 2]), y |-> cursor.y]]_vars

\* C17, its case: the cursor is at a column that the row below does not
\* have; Down clamps it to that row's end and Up does not bring it back
DownOntoShorterRow ==
    /\ ~panicked /\ ValidCursor(Buf)
    /\ cursor.y + 1 < Len(lines)
    /\ Len(lines[cursor.y + 2]) < cursor.x
    /\ move_cursor(Buf, Down).cursor =
          [x |-> Len(lines[cursor.y + 2]), y |-> cursor.y + 1]
    /\ move_cursor(move_cursor(Buf, Down), Up).cursor.x < cursor.x

\* C18: no move_cursor call, whatever the movement and the state it is
\* called in, changes the line store: the call returns with the same lines,
\* hence the same line_count().
MoveCursorKeepsLines ==
    [][(Live /\ lastOp'.name \in Movements /\ ~panicked') =>
          /\ lines' = lines
          /\ Len(lines') = Len(lines)]_vars

\* C18, its case: a movement has crossed from the end of a line that holds
\* text to the start of the next line
MovedAcrossLines ==
    /\ ~panicked
    /\ lastOp.name = "Right"
    /\ cursor.y >= 1 /\ cursor.y < Len(lines)
    /\ cursor.x = 0
    /\ lines[cursor.y] # <<>>

\* the offsets of the newlines of t, and the offset of the k-th of them
Newlines(t) == {i \in 1 .. Len(t) : t[i] = LF}
NthNewline(t, k) ==
    CHOOSE i \in Newlines(t) : Cardinality({j \in Newlines(t) : j <= i}) = k

\* t split at each newline: its k-th piece is the text between the newline
\* before the k-th and the k-th; text after the last newline is no piece
SplitAtNewlines(t) ==
    [k \in 1 .. Cardinality(Newlines(t)) |->
        SubSeq(t, IF k = 1 THEN 1 ELSE NthNewline(t, k - 1) + 1,
                  NthNewline(t, k) - 1)]

\* the text of t after its last newline, all of t when it has none
AfterLastNewline(t) ==
    IF Newlines(t) = {} THEN t
    ELSE SubSeq(t, NthNewline(t, Cardinality(Newlines(t))) + 1, Len(t))

\* C19: load(path) gives the lines obtained by appending one newline to the
\* file's content and splitting at each newline: one empty line for an empty
\* file, the text after the last newline as the final line of a file that
\* does not end in a newline; the cursor is at (0, 0) and path is the
\* associated path.
LoadSplitsAtNewlines ==
    (~panicked /\ lastOp.name = "from_path") =>
        /\ lines = SplitAtNewlines(io.bytes \o <<LF>>)
        /\ io.bytes = <<>> => lines = << <<>> >>
        /\ (io.bytes # <<>> /\ io.bytes[Len(io.bytes)] # LF) =>
              lines[Len(lines)] = AfterLastNewline(io.bytes)
        /\ cursor = [x |-> 0, y |-> 0]
        /\ file_path = io.path

\* insert_char called on each of the chars cs in order
RECURSIVE insert_chars(_, _)
insert_chars(b, cs) ==
    IF cs = <<>> \/ b.panicked THEN b
    ELSE insert_chars(insert_char(b, Head(cs)), Tail(cs))

\* C20: insert_string(s) from a valid cursor (x, y) gives the lines and the
\* cursor that insert_char on each char of s in order gives: s stands at
\* column x of row y, the other rows are unchanged and the cursor is at
\* (x + length(s), y).
InsertStringIsInsertChars ==
    (~panicked /\ ValidCursor(Buf)) =>
        \A s \in Strings :
            LET whole == insert_string(Buf, s)
                each == insert_chars(Buf, chars(s))
                row == lines[cursor.y + 1]
            IN  /\ ~whole.panicked /\ ~each.panicked
                /\ whole.lines = each.lines
                /\ whole.cursor = each.cursor
                /\ whole.lines = ReplaceRow(lines, cursor.y,
                                   <<Take(row, cursor.x) \o s \o Skip(row, cursor.x)>>)
                /\ whole.cursor = [x |-> cursor.x + Len(s), y |-> cursor.y]

\* C21: the alternate screen and raw mode are acquired once at the start of
\* the session and released on every exit path of main: quit, a failed
\* startup (released before the message is printed, the edit loop never
\* entered) and an error propagated out of rendering or command processing.
ScreenIsScoped ==
    /\ [](/\ status = "running" => screen = <<"EnterAlternateScreen">>
          /\ status \in {"quit", "error"} =>
                screen = <<"EnterAlternateScreen", "LeaveAlternateScreen">>
          /\ status = "startup_failed" =>
                screen = <<"EnterAlternateScreen", "LeaveAlternateScreen",
                           "println">>)
    /\ [][status = "running"]_vars

\* C21, its case: main has returned the error of a save command, and the
\* screen is released
ScreenReleasedOnError ==
    /\ status = "error"
    /\ lastOp.name = "w"
    /\ result = "IoError"
    /\ screen = <<"EnterAlternateScreen", "LeaveAlternateScreen">>

\* C22: under the operations the shell issues with valid arguments (every
\* movement, ToLine only to an existing line, insert_char, insert_string,
\* remove_char, insert_line, remove_line) every reachable state has
\* cursor.y < line_count() and cursor.x <= length(line[cursor.y]), and no
\* operation fails on an index or underflows a cursor coordinate.
ShellOperationsAreSafe ==
    /\ ~panicked
    /\ ValidCursor(Buf)

\* C23: the Backspace key of Insert mode deletes only what is right before
\* the cursor: from a column x >= 1 it removes the char at column x - 1 and
\* the cursor ends at (x - 1, y); from column 0 of a row y >= 1 it joins row
\* y onto row y - 1, the cursor at the join; at (0, 0) it leaves the lines and
\* the cursor as they are.
BackspaceDeletesBeforeCursor ==
    (Live /\ mode = "Insert" /\ ValidCursor(Buf)) =>
        LET after == key_event(Buf, "Insert", "Backspace").buf
            x == cursor.x
            y == cursor.y
            row == lines[y + 1]
        IN  /\ ~after.panicked
            /\ x >= 1 =>
                  /\ after.lines =
                        ReplaceRow(lines, y,
                          <<Take(row, x - 1)
                            \o Skip(row, x - 1 + Len(FirstChar(Skip(row, x - 1))))>>)
                  /\ after.cursor = [x |-> x - 1, y |-> y]
            /\ (x = 0 /\ y >= 1) =>
                  /\ after.lines = SubSeq(lines, 1, y - 1) \o <<lines[y] \o row>>
                                   \o SubSeq(lines, y + 2, Len(lines))
                  /\ after.cursor = [x |-> Len(lines[y]), y |-> y - 1]
            /\ (x = 0 /\ y = 0) =>
                  /\ after.lines = lines
                  /\ after.cursor = cursor

====
